---- MODULE Spec2Model ----
(***************************************************************************)
(* Model of VIBRATION.py: the generator fetch_data_ws (the sample buffer   *)
(* and the WebSocket connection), process_data / combined_filter /         *)
(* plot_dwt_analysis (one analysis cycle) and the module-level real-time   *)
(* loop with its single try/except.                                        *)
(*                                                                         *)
(* The script is one thread of control.  pc is its position:               *)
(*   idle    the script is at the "Start Real-Time Analysis" button        *)
(*   connect the for statement makes its first next() on the generator     *)
(*   recv    the generator is at ws.recv()                                 *)
(*   evict   the generator has appended and is at the length test          *)
(*   process the loop body is at process_data(...)                         *)
(*   plotX, plotY, plotZ  the loop body is at a plot_dwt_analysis call     *)
(*   sleep   the loop body is at time.sleep(0.1)                           *)
(*   except  an exception left the for statement and reaches line 149      *)
(*   done    the script run has ended                                      *)
(* Cutoff frequencies are integers in tenths of a hertz (the sidebar step  *)
(* is 0.1 Hz).                                                             *)
(***************************************************************************)
EXTENDS Integers, Sequences, FiniteSets, TLC

VARIABLES pc, conn, real_time_data_stream, real_time_data,
          lowcut, highcut, wavelet_type,
          err, reported, cycle_out, filter_len, pushes, complete

vars == <<pc, conn, real_time_data_stream, real_time_data,
          lowcut, highcut, wavelet_type,
          err, reported, cycle_out, filter_len, pushes, complete>>

(* ------------------------------ bounds --------------------------------- *)

\* Records the source delivers during one run of the script.
MaxPushes == 102

\* Records with all four fields the source delivers during one run.
MaxComplete == 1

(* ------------------------- program constants --------------------------- *)

\* line 31: if len(real_time_data_stream) >= 100
Capacity == 100

\* line 67: order=5
order == 5

\* line 40: fs=1000 (Hz)
fs == 1000

\* line 45: the required columns
Required == {"Time", "X", "Y", "Z"}

\* Key sets of the JSON objects the source sends: a complete record and one
\* without its Z field.
RecordKinds == {Required, {"Time", "X", "Y"}}

\* lines 118-119: the cutoffs the operator may enter, in tenths of a hertz:
\* the defaults 0.5 Hz and 20.0 Hz, and 500.0 Hz and 600.0 Hz (number_input
\* has min_value=0.1 and no max_value).
LowcutChoices == {5, 5000}
HighcutChoices == {200, 6000}

\* line 120: pywt.wavelist() lists the discrete and the continuous wavelets;
\* "bior1.1" is index 0 (the default), "morl" is a continuous one.
WaveletChoices == {"bior1.1", "morl"}
DiscreteWavelets == {"bior1.1"}

\* Exceptions raised by a step of an analysis cycle.
CycleErrors == {"FilterValueError", "WaveletValueError"}

(* ----------------------------- pure parts ------------------------------ *)

\* butter(order, cut / (0.5 * fs)): the critical frequency must satisfy
\* 0 < Wn < 1, else ValueError.  cut is in tenths of a hertz.
ButterOK(cut) == 0 < cut /\ 2 * cut < 10 * fs

\* filtfilt(b, a, data) with the default padlen = 3 * max(len(a), len(b));
\* an order-N Butterworth filter has N + 1 coefficients.
Padlen == 3 * (order + 1)

\* filtfilt raises ValueError unless len(data) > padlen.
FiltfiltOK(n) == n > Padlen

\* combined_filter on an array of n values: butter, filtfilt, butter,
\* filtfilt; any of them raising ends the call.
CombinedFilterOK(n, lo, hi) == ButterOK(lo) /\ FiltfiltOK(n) /\ ButterOK(hi)

\* pywt.wavedec accepts discrete wavelets only (ValueError otherwise).
WavedecOK(w) == w \in DiscreteWavelets

\* pd.DataFrame(list of dicts).columns: the union of the dicts' keys.
Columns(data) == UNION {data[i].keys : i \in DOMAIN data}

\* line 45: all(col in df.columns for col in ["Time", "X", "Y", "Z"])
FormatOK(data) == Required \subseteq Columns(data)

\* lines 31-32 with the threshold one too high.
EvictOffByOne(s) == IF Len(s) > Capacity THEN Tail(s) ELSE s

\* lines 31-32: if len(...) >= 100: pop(0)
Evict(s) == IF Len(s) >= Capacity THEN Tail(s) ELSE s

\* the finally clause left out.
WsCloseLeak(c) == c

\* lines 36-37: finally: ws.close()
WsClose(c) == "closed"

\* line 33 / line 128: the generator yields the list object itself, so the
\* loop variable real_time_data is the buffer, not a copy of it.
Snapshot == IF real_time_data = "ref" THEN real_time_data_stream ELSE <<>>

\* IDLE: no acquisition in progress; RUNNING: the button branch is executing.
OrchestratorState == IF pc \in {"idle", "done"} THEN "IDLE" ELSE "RUNNING"

Min(a, b) == IF a < b THEN a ELSE b

(* ------------------------------- Init ---------------------------------- *)

Init ==
    /\ pc = "idle"
    /\ conn = "none"
    /\ real_time_data_stream = <<>>
    /\ real_time_data = "unbound"
    /\ lowcut = 5
    /\ highcut = 200
    /\ wavelet_type = "bior1.1"
    /\ err = "none"
    /\ reported = {}
    /\ cycle_out = {}
    /\ filter_len = 0
    /\ pushes = 0
    /\ complete = 0

(* ------------------------------ actions -------------------------------- *)

\* lines 117-126: a script run with the sidebar values as entered and the
\* button pressed.  Every run starts from fresh module globals.
Start ==
    /\ pc \in {"idle", "done"}
    /\ \E lo \in LowcutChoices, hi \in HighcutChoices, w \in WaveletChoices :
          /\ lowcut' = lo
          /\ highcut' = hi
          /\ wavelet_type' = w
    /\ pc' = "connect"
    /\ conn' = "none"
    /\ real_time_data_stream' = <<>>
    /\ real_time_data' = "unbound"
    /\ err' = "none"
    /\ reported' = {}
    /\ cycle_out' = {}
    /\ filter_len' = 0
    /\ pushes' = 0
    /\ complete' = 0

\* lines 24-25: create_connection succeeds and the buffer is created.
Connect ==
    /\ pc = "connect"
    /\ conn' = "open"
    /\ real_time_data_stream' = <<>>
    /\ pc' = "recv"
    /\ UNCHANGED <<real_time_data, lowcut, highcut, wavelet_type, err,
                   reported, cycle_out, filter_len, pushes, complete>>

\* line 24: create_connection raises, outside the generator's try; the
\* exception leaves the for statement.
ConnectFails ==
    /\ pc = "connect"
    /\ err' = "ConnectError"
    /\ pc' = "except"
    /\ UNCHANGED <<conn, real_time_data_stream, real_time_data, lowcut,
                   highcut, wavelet_type, reported, cycle_out, filter_len,
                   pushes, complete>>

\* lines 28-30: a message is received, decoded and appended, whatever its
\* keys are.
RecvAppend ==
    /\ pc = "recv"
    /\ pushes < MaxPushes
    /\ \E k \in RecordKinds :
          /\ (k = Required) => complete < MaxComplete
          /\ complete' = IF k = Required THEN complete + 1 ELSE complete
          /\ real_time_data_stream' =
                Append(real_time_data_stream, [n |-> pushes + 1, keys |-> k])
    /\ pushes' = pushes + 1
    /\ pc' = "evict"
    /\ UNCHANGED <<conn, real_time_data, lowcut, highcut, wavelet_type, err,
                   reported, cycle_out, filter_len>>

\* lines 28-29, 36-37: json.loads raises JSONDecodeError, which the except
\* clause of line 34 does not catch; finally closes the connection and the
\* exception leaves the for statement.
RecvUndecodable ==
    /\ pc = "recv"
    /\ err' = "JSONDecodeError"
    /\ conn' = WsClose(conn)
    /\ pc' = "except"
    /\ UNCHANGED <<real_time_data_stream, real_time_data, lowcut, highcut,
                   wavelet_type, reported, cycle_out, filter_len, pushes,
                   complete>>

\* lines 28, 34-37: ws.recv raises WebSocketException; it is reported inside
\* the generator, the connection is closed, the generator returns and the
\* for statement ends normally.
RecvWsError ==
    /\ pc = "recv"
    /\ err' = "WebSocketException"
    /\ reported' = reported \cup {"WebSocketException"}
    /\ conn' = WsClose(conn)
    /\ pc' = "done"
    /\ UNCHANGED <<real_time_data_stream, real_time_data, lowcut, highcut,
                   wavelet_type, cycle_out, filter_len, pushes, complete>>

\* lines 31-33, 128: the length test, the eviction and the yield, which
\* binds the loop variable to the list.
EvictYield ==
    /\ pc = "evict"
    /\ real_time_data_stream' = Evict(real_time_data_stream)
    /\ real_time_data' = "ref"
    /\ pc' = "process"
    /\ UNCHANGED <<conn, lowcut, highcut, wavelet_type, err, reported,
                   cycle_out, filter_len, pushes, complete>>

\* lines 129-132, 145-146 and process_data (lines 40-64).
ProcessData ==
    /\ pc = "process"
    /\ IF ~FormatOK(Snapshot)
       THEN \* lines 45-47, then 145-146
            /\ reported' = reported \cup {"FormatError"}
            /\ cycle_out' = {"warning"}
            /\ filter_len' = 0
            /\ pc' = "sleep"
            /\ err' = err
       ELSE IF ~CombinedFilterOK(Len(Snapshot), lowcut, highcut)
       THEN \* lines 51-53: combined_filter raises ValueError
            /\ filter_len' = Len(Snapshot)
            /\ cycle_out' = {}
            /\ err' = "FilterValueError"
            /\ pc' = "except"
            /\ reported' = reported
       ELSE \* lines 51-64, 130-132
            /\ filter_len' = Len(Snapshot)
            /\ cycle_out' = {"stats", "success"}
            /\ pc' = "plotX"
            /\ UNCHANGED <<err, reported>>
    /\ UNCHANGED <<conn, real_time_data_stream, real_time_data, lowcut,
                   highcut, wavelet_type, pushes, complete>>

\* lines 135-143 and plot_dwt_analysis (lines 75-113) for one axis.
Plot(at, chart, next) ==
    /\ pc = at
    /\ IF WavedecOK(wavelet_type)
       THEN /\ cycle_out' = cycle_out \cup {chart}
            /\ pc' = next
            /\ err' = err
       ELSE /\ err' = "WaveletValueError"
            /\ pc' = "except"
            /\ cycle_out' = cycle_out
    /\ UNCHANGED <<conn, real_time_data_stream, real_time_data, lowcut,
                   highcut, wavelet_type, reported, filter_len, pushes,
                   complete>>

PlotX == Plot("plotX", "chartX", "plotY")
PlotY == Plot("plotY", "chartY", "plotZ")
PlotZ == Plot("plotZ", "chartZ", "sleep")

\* line 148, then the next next() on the generator.
Sleep ==
    /\ pc = "sleep"
    /\ pc' = "recv"
    /\ UNCHANGED <<conn, real_time_data_stream, real_time_data, lowcut,
                   highcut, wavelet_type, err, reported, cycle_out,
                   filter_len, pushes, complete>>

\* lines 149-150.  The exception unwinds the for statement, which drops the
\* only reference to the generator; a generator suspended at its yield is
\* then closed (GeneratorExit at line 33), which runs finally: ws.close().
\* The handler reports the error and the script run ends.
Except ==
    /\ pc = "except"
    /\ conn' = IF conn = "open" THEN WsClose(conn) ELSE conn
    /\ reported' = reported \cup {err}
    /\ pc' = "done"
    /\ UNCHANGED <<real_time_data_stream, real_time_data, lowcut, highcut,
                   wavelet_type, err, cycle_out, filter_len, pushes,
                   complete>>

Next ==
    \/ Start
    \/ Connect
    \/ ConnectFails
    \/ RecvAppend
    \/ RecvUndecodable
    \/ RecvWsError
    \/ EvictYield
    \/ ProcessData
    \/ PlotX
    \/ PlotY
    \/ PlotZ
    \/ Sleep
    \/ Except

Spec == Init /\ [][Next]_vars

TypeOK ==
    /\ pc \in {"idle", "connect", "recv", "evict", "process", "plotX",
               "plotY", "plotZ", "sleep", "except", "done"}
    /\ conn \in {"none", "open", "closed"}
    /\ real_time_data \in {"unbound", "ref"}
    /\ pushes \in 0..MaxPushes
    /\ Len(real_time_data_stream) <= pushes

(* ------------------------------ claims --------------------------------- *)

\* C1: at every yield the buffer handed to the cycle holds exactly the most
\* recent min(n, Capacity) of the n records pushed so far, in arrival order.
C1_SnapshotIsLastMinNC ==
    pc = "process" =>
       /\ Len(Snapshot) = Min(pushes, Capacity)
       /\ \A i \in DOMAIN Snapshot :
             Snapshot[i].n = pushes - Len(Snapshot) + i

\* C2: once an error thrown by a step of an analysis cycle has been
\* reported, the orchestrator is still RUNNING.
C2_CycleErrorKeepsRunning ==
    (err \in CycleErrors /\ err \in reported) => OrchestratorState = "RUNNING"

\* C3: a cycle whose snapshot is shorter than the minimum length of the
\* zero-phase order-5 filter (more than Padlen values) does not invoke the
\* filter and raises no error.
C3_ShortSnapshotSkipped ==
    (pc \in {"process", "plotX", "plotY", "plotZ", "sleep", "except"}
        /\ ~FiltfiltOK(Len(Snapshot)))
    => (filter_len = 0 /\ err \notin CycleErrors)

\* C4: a snapshot that was handed to the analysis cycle is not changed by
\* any later step.
C4_SnapshotImmutable ==
    [][(real_time_data = "ref" /\ real_time_data' = "ref")
          => Snapshot' = Snapshot]_vars

\* C5: a record missing one of the fields Time, X, Y, Z is never in the
\* buffer.
C5_MalformedNotEnqueued ==
    \A i \in DOMAIN real_time_data_stream :
       Required \subseteq real_time_data_stream[i].keys

\* C6: with an invalid configuration (a cutoff outside (0, Nyquist), a
\* wavelet the decomposition does not support) no connection is opened and
\* no sample is received.
ConfigValid ==
    ButterOK(lowcut) /\ ButterOK(highcut) /\ WavedecOK(wavelet_type)

C6_EagerConfigValidation ==
    ~ConfigValid => (conn = "none" /\ pushes = 0)

\* C7: the buffer never holds more than Capacity records, the state between
\* the append and the eviction of one push included.
C7_LengthAtMostCapacity ==
    Len(real_time_data_stream) <= Capacity

C7_Witness ==
    pc = "evict" /\ Len(real_time_data_stream) = Capacity

\* C8: while an analysis cycle or the inter-cycle delay is in progress, a
\* delivered sample can be pushed into the buffer.
C8_CycleDoesNotBlockIngestion ==
    (pc \in {"process", "plotX", "plotY", "plotZ", "sleep"}
        /\ pushes < MaxPushes)
    => ENABLED RecvAppend

\* C9: when a step of a cycle has failed, nothing of that cycle's result
\* (statistics, charts) has been published.
C9_NoPartialResult ==
    err \in CycleErrors =>
       cycle_out \cap {"stats", "success", "chartX", "chartY", "chartZ"} = {}

\* C10: whenever a run has ended (the orchestrator is IDLE after RUNNING),
\* the connection it opened is closed.
C10_ClosedWhenIdle ==
    pc = "done" => conn # "open"

C10_Witness ==
    /\ pc = "done"
    /\ conn = "closed"
    /\ err \in CycleErrors
    /\ err \in reported

====
